---- MODULE Spec2Model ----
(***************************************************************************)
(* Model of src/MQTTProtocolOut.c (Eclipse Paho MQTT C client): the        *)
(* outgoing connect sequence, the address parser, the subscribe and        *)
(* unsubscribe requests and the PINGRESP / SUBACK / UNSUBACK handlers.     *)
(***************************************************************************)
EXTENDS Integers, Sequences, FiniteSets, TLC

(***************************************************************************)
(* Bounds of the model.                                                    *)
(***************************************************************************)
MaxSock == 2         \* socket handles the transport can hand out: 1..MaxSock
MaxPacks == 1        \* decoded ack structures on the heap

(***************************************************************************)
(* Program constants (values of the headers the source includes).         *)
(***************************************************************************)
EINPROGRESS == 115
EWOULDBLOCK == 11
SOCKET_ERROR == -1
TCPSOCKET_COMPLETE == 0
TCPSOCKET_INTERRUPTED == -22
DEFAULT_PORT == 1883

\* The values of Clients.connect_state, as the comments of connect name them.
CS_INIT == 0
CS_TCP_PENDING == 1
CS_TLS_PENDING == 2
CS_MQTT_PENDING == 3

\* The sessions of bstate->clients: the one a call acts on and another one.
Sessions == {1, 2}
Handles == 1..MaxSock
NoSocket == -1                  \* net.socket of a session that holds no socket
Packs == 1..MaxPacks
NoPack == 0
NoClient == 0                   \* the NULL a failed lookup yields

(***************************************************************************)
(* C strings are sequences of one-character strings; a char* is either the *)
(* caller's string ("uri") or a buffer malloc returned ("buf").            *)
(***************************************************************************)
Digits == <<"0", "1", "2", "3", "4", "5", "6", "7", "8", "9">>

IsDigit(c) == \E d \in 1..10 : Digits[d] = c

DigitVal(c) == (CHOOSE d \in 1..10 : Digits[d] = c) - 1

\* strrchr: the index (1-based) of the last occurrence of c, 0 (NULL) if none.
strrchr(s, c) ==
  IF \E i \in 1..Len(s) : s[i] = c
  THEN CHOOSE i \in 1..Len(s) : s[i] = c /\ \A j \in (i+1)..Len(s) : s[j] # c
  ELSE 0

\* atoi on an unsigned decimal prefix: the value of the leading digits, 0 if
\* none.  The endpoints of the model hold too few digits to overflow an int.
RECURSIVE atoiFrom(_, _, _)
atoiFrom(s, i, acc) ==
  IF i > Len(s) \/ ~IsDigit(s[i]) THEN acc
  ELSE atoiFrom(s, i + 1, acc * 10 + DigitVal(s[i]))

atoi(s) == atoiFrom(s, 1, 0)

\* MQTTStrncpy(dest, src, dest_size): at most dest_size - 1 characters of src,
\* then the terminator (written even when dest_size is 0).
MQTTStrncpy(src, dest_size) ==
  IF dest_size <= 1 THEN <<>>
  ELSE SubSeq(src, 1, IF Len(src) < dest_size - 1 THEN Len(src) ELSE dest_size - 1)

\* A variant of PortColon without the IPv6 test of lines 57-61.
PortColon_NoBracketTest(uri) == strrchr(uri, ":")

\* Lines 57-61: the colon that separates host and port, 0 when there is none.
\* Pointers compare as their offsets, NULL lowest.
PortColon(uri) ==
  LET colon_pos == strrchr(uri, ":")
  IN IF Len(uri) > 0 /\ uri[1] = "[" /\ colon_pos < strrchr(uri, "]")
     THEN 0
     ELSE colon_pos

\* Lines 63-71: the host before the trailing-']' test, the port, and whether
\* buf still is the caller's pointer.
SplitPort(uri) ==
  LET colon_pos == PortColon(uri)
  IN IF colon_pos # 0
     THEN [host  |-> MQTTStrncpy(uri, (colon_pos - 1) + 1),
           port  |-> atoi(SubSeq(uri, colon_pos + 1, Len(uri))),
           alias |-> FALSE]
     ELSE [host |-> uri, port |-> DEFAULT_PORT, alias |-> TRUE]

\* Line 74: buf[len - 1] == ']'.  With len = 0 the index wraps and the byte read
\* lies before the buffer: the outcome is whatever that byte holds (oob).
TrailingBracket(host, oob) ==
  IF Len(host) = 0 THEN oob ELSE host[Len(host)] = "]"

\* A variant of MQTTProtocol_addressPort that strips the ']' in place, in
\* whichever string buf points to, and allocates nothing for it.
MQTTProtocol_addressPort_InPlace(uri, oob) ==
  LET sp == SplitPort(uri)
      len == Len(sp.host)
  IN IF TrailingBracket(sp.host, oob)
     THEN [host |-> SubSeq(sp.host, 1, len - 1), port |-> sp.port, alias |-> sp.alias]
     ELSE sp

\* MQTTProtocol_addressPort(uri, &port).  oob: what the out-of-bounds read of
\* line 74 finds when the host is empty.
MQTTProtocol_addressPort(uri, oob) ==
  LET sp == SplitPort(uri)
      len == Len(sp.host)
  IN IF TrailingBracket(sp.host, oob)
     THEN IF sp.alias
          THEN [host |-> MQTTStrncpy(uri, len), port |-> sp.port, alias |-> FALSE]
          ELSE [host |-> SubSeq(sp.host, 1, len - 1), port |-> sp.port, alias |-> FALSE]
     ELSE sp

\* The endpoints the connect calls of the model pass.
ConnectEndpoints ==
  { <<"a">>,                          \* "a": no port, host is the input
    <<"a", ":", "1">>,                \* "a:1": split at the colon
    <<"[", ":", "]">>,                \* "[:]": bracket stripped
    <<":", "1">> }                    \* ":1": empty host

(***************************************************************************)
(* MQTTProtocol_connect, lines 98-146, as a function of the outcomes of    *)
(* its collaborators.                                                      *)
(***************************************************************************)
TcpOutcomes == {0, EINPROGRESS, EWOULDBLOCK, SOCKET_ERROR}   \* Socket_new
CfgOutcomes == {0, 1}                       \* SSLSocket_setSocketForSSL
HsOutcomes == {0, TCPSOCKET_INTERRUPTED, SOCKET_ERROR}       \* SSLSocket_connect
SendOutcomes == {0, SOCKET_ERROR}     \* MQTTPacket_send_*

Ev(call, ptr, ret) == [call |-> call, ptr |-> ptr, ret |-> ret]

\* The pointer addressPort returned.
AddrPtr(alias) == IF alias THEN "uri" ELSE "buf"

\* A variant of TcpPending that forgets EWOULDBLOCK.
TcpPending_OnlyInProgress(rc) == rc = EINPROGRESS

\* Line 113.
TcpPending(rc) == rc = EINPROGRESS \/ rc = EWOULDBLOCK

\* A variant of TlsSteps that goes on to the CONNECT send without the TLS steps.
TlsSteps_Skipped(cs, ssl, addr, cfg, hs) == [rc |-> 0, cs |-> cs, calls |-> <<>>]

\* A variant of TlsSteps that goes on to the handshake whatever the
\* configuration returned.
TlsSteps_CfgIgnored(cs, ssl, addr, cfg, hs) ==
  IF ssl = 0
  THEN [rc |-> 0, cs |-> cs, calls |-> <<>>]
  ELSE [rc |-> hs,
        cs |-> IF hs = TCPSOCKET_INTERRUPTED THEN CS_TLS_PENDING ELSE cs,
        calls |-> <<Ev("SSLSocket_setSocketForSSL", addr, cfg),
                    Ev("SSLSocket_connect", addr, hs)>>]

\* Lines 118-129: the TLS steps after an immediate TCP success.  Yields rc,
\* the connect_state after them and the calls made.
TlsSteps(cs, ssl, addr, cfg, hs) ==
  IF ssl = 0
  THEN [rc |-> 0, cs |-> cs, calls |-> <<>>]
  ELSE IF cfg = 1
       THEN [rc |-> hs,
             cs |-> IF hs = TCPSOCKET_INTERRUPTED THEN CS_TLS_PENDING ELSE cs,
             calls |-> <<Ev("SSLSocket_setSocketForSSL", addr, cfg),
                         Ev("SSLSocket_connect", addr, hs)>>]
       ELSE [rc |-> SOCKET_ERROR, cs |-> cs,
             calls |-> <<Ev("SSLSocket_setSocketForSSL", addr, cfg)>>]

\* A variant of SendStep without the test of line 132: it sends whatever rc is.
SendStep_Unguarded(rc, cs, snd) ==
  [rc |-> snd,
   cs |-> IF snd = 0 THEN CS_MQTT_PENDING ELSE CS_INIT,
   calls |-> <<Ev("MQTTPacket_send_connect", "none", snd)>>]

\* Lines 132-139: the CONNECT send.
SendStep(rc, cs, snd) ==
  IF rc = 0
  THEN [rc |-> snd,
        cs |-> IF snd = 0 THEN CS_MQTT_PENDING ELSE CS_INIT,
        calls |-> <<Ev("MQTTPacket_send_connect", "none", snd)>>]
  ELSE [rc |-> rc, cs |-> cs, calls |-> <<>>]

\* A variant of ReleaseAddr without the identity test of line 141.
ReleaseAddr_Unchecked(alias) == <<Ev("free", AddrPtr(alias), 0)>>

\* Lines 141-142.
ReleaseAddr(alias) ==
  IF AddrPtr(alias) # "uri" THEN <<Ev("free", AddrPtr(alias), 0)>> ELSE <<>>

\* Lines 112-140: from the TCP connect to the CONNECT send.
Handshake(cs, ssl, addr, tcp, cfg, hs, snd) ==
  LET sock == <<Ev("Socket_new", addr, tcp)>>
  IN IF TcpPending(tcp)
     THEN [rc |-> tcp, cs |-> CS_TCP_PENDING, calls |-> sock]
     ELSE IF tcp = 0
          THEN LET tls == TlsSteps(cs, ssl, addr, cfg, hs)
                   snt == SendStep(tls.rc, tls.cs, snd)
               IN [rc |-> snt.rc, cs |-> snt.cs,
                   calls |-> sock \o tls.calls \o snt.calls]
          ELSE [rc |-> tcp, cs |-> cs, calls |-> sock]

\* The whole call: rc, connect_state and the calls in order, the release last.
ConnectRun(cs, ssl, alias, tcp, cfg, hs, snd) ==
  LET h == Handshake(cs, ssl, AddrPtr(alias), tcp, cfg, hs, snd)
  IN [rc |-> h.rc, cs |-> h.cs, calls |-> h.calls \o ReleaseAddr(alias)]


(***************************************************************************)
(* State.                                                                  *)
(*   clients   the sessions of bstate->clients: connect_state, good,       *)
(*             ping_outstanding and net.socket of each                     *)
(*   released  the heap state of each decoded ack structure                *)
(*   last      the call made last: its arguments, the values the session   *)
(*             held when it began, its calls in order and what it returned *)
(*   running   FALSE once a call has crashed the process                   *)
(***************************************************************************)
VARIABLES clients, released, last, running

vars == <<clients, released, last, running>>

\* The record of a call.  who: the session passed (connect, subscribe,
\* unsubscribe) or found by the lookup (handlers), NoClient if none.
Call(op, who, sock, pack, ssl, alias, cs_before, ping_before, calls, outcome, rc) ==
  [op |-> op, who |-> who, sock |-> sock, pack |-> pack, ssl |-> ssl,
   alias |-> alias, cs_before |-> cs_before, ping_before |-> ping_before,
   calls |-> calls, outcome |-> outcome, rc |-> rc]

\* A session as the client-management code creates it (zeroed), holding no socket.
NewClient ==
  [connect_state |-> CS_INIT, good |-> 0, ping_outstanding |-> 0, socket |-> NoSocket]

Init ==
  /\ clients = [s \in Sessions |-> NewClient]
  /\ released = [p \in Packs |-> "live"]
  /\ last = Call("none", NoClient, NoSocket, NoPack, 0, TRUE, 0, 0, <<>>, "returned", 0)
  /\ running = TRUE

\* The handles Socket_new can give session s: those no other session holds.
FreeHandles(s) == {h \in Handles : \A t \in Sessions \ {s} : clients[t].socket # h}

\* Socket_new's write through &aClient->net.socket (line 112): a handle when the
\* connect succeeded or is in progress, none when it failed.
NewSockets(s, tcp) ==
  IF tcp = 0 \/ TcpPending(tcp) THEN FreeHandles(s) ELSE {NoSocket}

\* A variant of ConnectUpdate that starts the session's keep-alive afresh.
ConnectUpdate_ResetsPing(c, run, newsock) ==
  [c EXCEPT !.good = 1, !.socket = newsock, !.connect_state = run.cs,
            !.ping_outstanding = 0]

\* A variant of ConnectUpdate that marks the session healthy only when the
\* call did not fail.
ConnectUpdate_GoodUnlessError(c, run, newsock) ==
  [c EXCEPT !.good = (IF run.rc = SOCKET_ERROR THEN 0 ELSE 1),
            !.socket = newsock, !.connect_state = run.cs]

\* Line 109 and the result of the call, written to the session.
ConnectUpdate(c, run, newsock) ==
  [c EXCEPT !.good = 1, !.socket = newsock, !.connect_state = run.cs]

\* MQTTProtocol_connect(ip_address, aClient, ssl, MQTTVersion, ...), lines 98-146.
MQTTProtocol_connect(s, uri, ssl, tcp, cfg, hs, snd, oob) ==
  LET ap == MQTTProtocol_addressPort(uri, oob)
      run == ConnectRun(clients[s].connect_state, ssl, ap.alias, tcp, cfg, hs, snd)
  IN /\ running
     /\ \E newsock \in NewSockets(s, tcp) :
          clients' = [clients EXCEPT ![s] = ConnectUpdate(@, run, newsock)]
     /\ last' = Call("connect", s, NoSocket, NoPack, ssl, ap.alias,
                     clients[s].connect_state, 0, run.calls, "returned", run.rc)
     /\ UNCHANGED <<released, running>>

\* The outcomes that can differ: a collaborator that is not called has none.
ConnectStep ==
  \E s \in Sessions, uri \in ConnectEndpoints, ssl \in {0, 1}, tcp \in TcpOutcomes :
    \E cfg \in (IF ssl = 1 /\ tcp = 0 THEN CfgOutcomes ELSE {0}) :
      \E hs \in (IF cfg = 1 THEN HsOutcomes ELSE {0}) :
        \E snd \in (IF tcp = 0 /\ (ssl = 0 \/ (cfg = 1 /\ hs = 0)) THEN SendOutcomes ELSE {0}) :
          \E oob \in (IF Len(SplitPort(uri).host) = 0 THEN BOOLEAN ELSE {FALSE}) :
            MQTTProtocol_connect(s, uri, ssl, tcp, cfg, hs, snd, oob)


(***************************************************************************)
(* The ack handlers, lines 155-166, 197-209 and 236-248.                   *)
(***************************************************************************)
\* ListFindItem(bstate->clients, &sock, clientSocketCompare): the session whose
\* net.socket is sock, NoClient (NULL) when there is none.
FindClient(sock) ==
  IF \E s \in Sessions : clients[s].socket = sock
  THEN CHOOSE s \in Sessions : clients[s].socket = sock
  ELSE NoClient

\* A variant of ClearPing that leaves the flag as it is.
ClearPing_Forgotten(c) == c

\* Line 163.
ClearPing(c) == [c EXCEPT !.ping_outstanding = 0]

\* Lines 206 and 245: free() on an ack structure.  A second free of the same
\* structure is a double free.
Release(h) == IF h = "live" THEN "freed" ELSE "double_free"

\* A variant of FreeAck that never releases the structure.
FreeAck_Leaked(heap, pack) == heap

\* MQTTPacket_freeSuback(suback), line 206; free(unsuback), line 245.
FreeAck(heap, pack) == [heap EXCEPT ![pack] = Release(@)]

\* What the handlers return, lines 158, 201 and 240.
HandlerRc == TCPSOCKET_COMPLETE

\* Lines 161, 204 and 243 dereference the result of the lookup unchecked.  With
\* no session for sock that is a read through NULL: the process crashes, or the
\* read yields a garbage client pointer and the handler goes on with it.  The
\* garbage pointer is a session's address (t) or none (NoClient).
Garbage == Sessions \cup {NoClient}

Crash(op, sock, pack) ==
  /\ running' = FALSE
  /\ last' = Call(op, NoClient, sock, pack, 0, TRUE, 0, 0, <<>>, "crashed", 0)

\* MQTTProtocol_handlePingresps(pack, sock), lines 155-166.
MQTTProtocol_handlePingresps(sock) ==
  LET client == FindClient(sock)
  IN /\ running
     /\ IF client # NoClient
        THEN /\ clients' = [clients EXCEPT ![client] = ClearPing(@)]
             /\ last' = Call("handlePingresps", client, sock, NoPack, 0, TRUE, 0,
                             clients[client].ping_outstanding, <<>>, "returned",
                             HandlerRc)
             /\ UNCHANGED <<released, running>>
        ELSE \/ /\ Crash("handlePingresps", sock, NoPack)
                /\ UNCHANGED <<clients, released>>
             \/ \E t \in Garbage :
                  /\ clients' = IF t = NoClient THEN clients
                                ELSE [clients EXCEPT ![t] = ClearPing(@)]
                  /\ last' = Call("handlePingresps", NoClient, sock, NoPack, 0, TRUE,
                                  0, 0, <<>>, "returned", HandlerRc)
                  /\ UNCHANGED <<released, running>>

\* The body the two ack-releasing handlers share: look the session up, log,
\* release the structure, return.
HandleAck(op, freeCall, pack, sock) ==
  LET client == FindClient(sock)
  IN /\ running
     /\ \/ /\ client = NoClient
           /\ Crash(op, sock, pack)
           /\ UNCHANGED <<clients, released>>
        \/ /\ released' = FreeAck(released, pack)
           /\ last' = Call(op, client, sock, pack, 0, TRUE, 0, 0,
                           <<Ev(freeCall, "pack", 0)>>, "returned", HandlerRc)
           /\ UNCHANGED <<clients, running>>

\* MQTTProtocol_handleSubacks(pack, sock), lines 197-209.
MQTTProtocol_handleSubacks(pack, sock) ==
  HandleAck("handleSubacks", "MQTTPacket_freeSuback", pack, sock)

\* MQTTProtocol_handleUnsubacks(pack, sock), lines 236-248.
MQTTProtocol_handleUnsubacks(pack, sock) ==
  HandleAck("handleUnsubacks", "free", pack, sock)

(***************************************************************************)
(* The requests, lines 178-188 and 218-227.                                *)
(***************************************************************************)
\* A variant of MQTTProtocol_subscribe that resets the session's phase when the
\* send fails, as connect does for its own send.
MQTTProtocol_subscribe_ResetsOnFailure(s, snd) ==
  /\ running
  /\ clients' = IF snd # 0 THEN [clients EXCEPT ![s].connect_state = CS_INIT]
                 ELSE clients
  /\ last' = Call("subscribe", s, NoSocket, NoPack, 0, TRUE, 0, 0,
                  <<Ev("MQTTPacket_send_subscribe", "none", snd)>>, "returned", snd)
  /\ UNCHANGED <<released, running>>

\* MQTTProtocol_subscribe(client, topics, qoss, msgID, opts, props).
MQTTProtocol_subscribe(s, snd) ==
  /\ running
  /\ last' = Call("subscribe", s, NoSocket, NoPack, 0, TRUE, 0, 0,
                  <<Ev("MQTTPacket_send_subscribe", "none", snd)>>, "returned", snd)
  /\ UNCHANGED <<clients, released, running>>

\* MQTTProtocol_unsubscribe(client, topics, msgID).
MQTTProtocol_unsubscribe(s, snd) ==
  /\ running
  /\ last' = Call("unsubscribe", s, NoSocket, NoPack, 0, TRUE, 0, 0,
                  <<Ev("MQTTPacket_send_unsubscribe", "none", snd)>>, "returned", snd)
  /\ UNCHANGED <<clients, released, running>>

(***************************************************************************)
(* The keep-alive sender, outside this file: it sets ping_outstanding when *)
(* it has sent a PINGREQ.                                                  *)
(***************************************************************************)
KeepAlivePing(s) ==
  /\ running
  /\ clients[s].ping_outstanding = 0
  /\ clients' = [clients EXCEPT ![s].ping_outstanding = 1]
  /\ last' = Call("keepalive", s, NoSocket, NoPack, 0, TRUE, 0, 0, <<>>, "returned", 0)
  /\ UNCHANGED <<released, running>>

\* Connect calls without TLS to an endpoint that names no port.
ConnectPlain ==
  \E s \in Sessions, tcp \in TcpOutcomes :
    \E snd \in (IF tcp = 0 THEN SendOutcomes ELSE {0}) :
      MQTTProtocol_connect(s, <<"a">>, 0, tcp, 0, 0, snd, FALSE)

PingrespStep == \E sock \in Handles : MQTTProtocol_handlePingresps(sock)

SubackStep == \E pack \in Packs, sock \in Handles : MQTTProtocol_handleSubacks(pack, sock)

UnsubackStep == \E pack \in Packs, sock \in Handles : MQTTProtocol_handleUnsubacks(pack, sock)

SubscribeStep == \E s \in Sessions, snd \in SendOutcomes : MQTTProtocol_subscribe(s, snd)

UnsubscribeStep == \E s \in Sessions, snd \in SendOutcomes : MQTTProtocol_unsubscribe(s, snd)

KeepAliveStep == \E s \in Sessions : KeepAlivePing(s)

\* Every operation of the file, and the keep-alive sender.
Next ==
  \/ ConnectStep
  \/ PingrespStep
  \/ SubackStep
  \/ UnsubackStep
  \/ SubscribeStep
  \/ UnsubscribeStep
  \/ KeepAliveStep

Spec == Init /\ [][Next]_vars

\* Connect calls alone, on any session, in any phase, with every outcome of the
\* collaborators.
NextConnect == ConnectStep

SpecConnect == Init /\ [][NextConnect]_vars

\* The ack handlers and the keep-alive sender, on sessions that plain connect
\* calls have given their sockets.
NextAck ==
  \/ ConnectPlain
  \/ PingrespStep
  \/ SubackStep
  \/ UnsubackStep
  \/ KeepAliveStep

SpecAck == Init /\ [][NextAck]_vars

(***************************************************************************)
(* MQTTProtocol_addressPort on its own: a call on each endpoint string.    *)
(***************************************************************************)
MaxUriLen == 5       \* longest endpoint drawn from the alphabet

\* The characters that decide the parse: the brackets, the colon, a character
\* of a host name and a digit.
Alphabet == {"[", "]", ":", "a", "1"}

\* The endpoints the documentation of the parser names.
DocumentedEndpoints ==
  { <<"[", ":", ":", "1", "]">>,
    <<"[", ":", ":", "1", "]", ":", "1", "8", "8", "3">>,
    <<"1", "0", ".", "0", ".", "0", ".", "1">>,
    <<"1", "0", ".", "0", ".", "0", ".", "1", ":", "1", "8", "8", "3">> }

\* Every string over the alphabet up to MaxUriLen characters, the empty one
\* included, and the documented endpoints.
Endpoints ==
  UNION {[1..n -> Alphabet] : n \in 0..MaxUriLen} \cup DocumentedEndpoints

\* An access to memory: the line that makes it, its kind ("malloc", "read" or
\* "write"), the object ("uri": the caller's string, "buf": the buffer malloc
\* returned), the index furthest from the start and the object's size in bytes.
Acc(line, kind, ptr, idx, size) ==
  [line |-> line, kind |-> kind, ptr |-> ptr, idx |-> idx, size |-> size]

\* Lines 65-68: the allocation for the host and the copy into it, the
\* terminator at the index the copy ends at.
SplitAccesses(uri) ==
  LET colon_pos == PortColon(uri)
      addr_len == colon_pos - 1
  IN IF colon_pos # 0
     THEN <<Acc(66, "malloc", "buf", 0, addr_len + 1),
            Acc(68, "write", "buf", Len(MQTTStrncpy(uri, addr_len + 1)), addr_len + 1)>>
     ELSE <<>>

\* Lines 73-83: the test of buf[len - 1] and, when it finds ']', the strip: a
\* copy into a new buffer of len bytes when buf is the caller's string, else a
\* terminator written at len - 1 of the buffer of line 66.  len - 1 of an
\* empty host is the byte before the object (index -1).
StripAccesses(uri, oob) ==
  LET sp == SplitPort(uri)
      len == Len(sp.host)
  IN <<Acc(74, "read", AddrPtr(sp.alias), len - 1, len + 1)>> \o
     (IF TrailingBracket(sp.host, oob)
      THEN IF sp.alias
           THEN <<Acc(78, "malloc", "buf", 0, len),
                  Acc(79, "write", "buf", Len(MQTTStrncpy(uri, len)), len)>>
           ELSE <<Acc(82, "write", "buf", len - 1, len + 1)>>
      ELSE <<>>)

\* The accesses of one call, in order.
AddressPortAccesses(uri, oob) == SplitAccesses(uri) \o StripAccesses(uri, oob)

\* The record of a call of the parser: before it runs, and when it has returned.
ParseCalled(uri) == [op |-> "addressPort", outcome |-> "called", uri |-> uri]

ParseReturned(uri, ap, accesses) ==
  [op |-> "addressPort", outcome |-> "returned", uri |-> uri,
   host |-> ap.host, port |-> ap.port, alias |-> ap.alias, accesses |-> accesses]

\* A caller about to pass an endpoint.
InitParse ==
  /\ clients = [s \in Sessions |-> NewClient]
  /\ released = [p \in Packs |-> "live"]
  /\ running = TRUE
  /\ \E uri \in Endpoints : last = ParseCalled(uri)

\* The call: host = MQTTProtocol_addressPort(uri, &port).
AddressPortCall(oob) ==
  /\ last.op = "addressPort" /\ last.outcome = "called"
  /\ last' = ParseReturned(last.uri, MQTTProtocol_addressPort(last.uri, oob),
                           AddressPortAccesses(last.uri, oob))
  /\ UNCHANGED <<clients, released, running>>

\* The byte an out-of-bounds read of line 74 finds is ']' or another one.
AddressPortStep ==
  \E oob \in (IF Len(SplitPort(last.uri).host) = 0 THEN BOOLEAN ELSE {FALSE}) :
    AddressPortCall(oob)

NextParse == AddressPortStep

SpecParse == InitParse /\ [][NextParse]_vars


(***************************************************************************)
(* The six operations of the file together.  The connect calls request     *)
(* TLS, which takes sessions through every phase, on one endpoint and with *)
(* every outcome of the collaborators.                                     *)
(***************************************************************************)
ConnectTls ==
  \E s \in Sessions, tcp \in TcpOutcomes :
    \E cfg \in (IF tcp = 0 THEN CfgOutcomes ELSE {0}) :
      \E hs \in (IF cfg = 1 THEN HsOutcomes ELSE {0}) :
        \E snd \in (IF tcp = 0 /\ cfg = 1 /\ hs = 0 THEN SendOutcomes ELSE {0}) :
          MQTTProtocol_connect(s, <<"a">>, 1, tcp, cfg, hs, snd, FALSE)

NextFrame ==
  \/ ConnectTls
  \/ PingrespStep
  \/ SubackStep
  \/ UnsubackStep
  \/ SubscribeStep
  \/ UnsubscribeStep

SpecFrame == Init /\ [][NextFrame]_vars

\* The six operations of the file and the keep-alive sender, which sets the
\* flag the PINGRESP handler clears; the connect calls are those without TLS.
NextPing ==
  \/ ConnectPlain
  \/ PingrespStep
  \/ SubackStep
  \/ UnsubackStep
  \/ SubscribeStep
  \/ UnsubscribeStep
  \/ KeepAliveStep

SpecPing == Init /\ [][NextPing]_vars


(***************************************************************************)
(* Vocabulary of the properties: what the last call did.                   *)
(***************************************************************************)
IsConnect == last.op = "connect"

\* connect_state of the session of the last call, after it.
CsAfter == clients[last.who].connect_state

\* The last call called c / called c and got r back.
Called(c) == \E i \in 1..Len(last.calls) : last.calls[i].call = c

Made(c, r) == \E i \in 1..Len(last.calls) : last.calls[i].call = c /\ last.calls[i].ret = r

\* How often the last call called c, and where first (0: never).
Times(c) == Cardinality({i \in 1..Len(last.calls) : last.calls[i].call = c})

Pos(c) == IF Called(c) THEN CHOOSE i \in 1..Len(last.calls) :
                              last.calls[i].call = c /\ \A j \in 1..(i-1) : last.calls[j].call # c
          ELSE 0

\* A status that is neither success nor a TCP or TLS pending status.
IsFailure(rc) == rc # 0 /\ ~(rc = EINPROGRESS \/ rc = EWOULDBLOCK) /\ rc # TCPSOCKET_INTERRUPTED

(***************************************************************************)
(* C1.  As claimed: when TLS was requested, connect_state never goes from  *)
(* INIT to MQTT_PENDING without having held TLS_PENDING in between.  A     *)
(* call assigns connect_state at most once, so a call with TLS that finds  *)
(* INIT must not leave MQTT_PENDING.                                       *)
(***************************************************************************)
C1_NeverSkipsTlsPending ==
  (IsConnect /\ last.ssl = 1 /\ last.cs_before = CS_INIT) => CsAfter # CS_MQTT_PENDING

\* C1, amended: connect_state changes to MQTT_PENDING only in a call in which
\* no handshake step was skipped: Socket_new returned 0 and, when TLS was
\* requested, SSLSocket_setSocketForSSL returned 1 and SSLSocket_connect
\* returned 0 in that call.  TLS_PENDING is held only when the handshake is
\* interrupted; a handshake that succeeds at once takes the session from INIT
\* straight to MQTT_PENDING.
C1_NoStepSkipped ==
  /\ (IsConnect /\ last.cs_before # CS_MQTT_PENDING /\ CsAfter = CS_MQTT_PENDING)
       => /\ Made("Socket_new", 0)
          /\ last.ssl = 1 => /\ Made("SSLSocket_setSocketForSSL", 1)
                             /\ Made("SSLSocket_connect", 0)
  /\ (IsConnect /\ last.cs_before # CS_TLS_PENDING /\ CsAfter = CS_TLS_PENDING)
       => /\ last.ssl = 1
          /\ Made("SSLSocket_connect", TCPSOCKET_INTERRUPTED)

\* C1, witness: a call with TLS took a session from INIT straight to MQTT_PENDING.
C1_Witness ==
  /\ IsConnect /\ last.ssl = 1 /\ last.cs_before = CS_INIT /\ CsAfter = CS_MQTT_PENDING
  /\ Made("SSLSocket_connect", 0)

(***************************************************************************)
(* C2.  As claimed: every change of connect_state by a connect call moves  *)
(* to a strictly later phase or resets to INIT, whatever phase the call    *)
(* found.                                                                  *)
(***************************************************************************)
C2_ForwardOrReset ==
  IsConnect => \/ CsAfter = last.cs_before
               \/ CsAfter > last.cs_before
               \/ CsAfter = CS_INIT

(***************************************************************************)
(* C3.  As claimed: a connect call that returns a failure status leaves    *)
(* connect_state at INIT, whatever phase the call found.                   *)
(***************************************************************************)
C3_FailureLeavesInit ==
  (IsConnect /\ IsFailure(last.rc)) => CsAfter = CS_INIT

(***************************************************************************)
(* C4.  Within one connect call the steps are sequential: the TCP connect  *)
(* comes first; TLS configuration and the TLS handshake are attempted only *)
(* after Socket_new returned 0, the handshake only after the configuration *)
(* returned 1; CONNECT is sent at most once, after everything else, only   *)
(* after Socket_new returned 0 and, with TLS, the configuration returned 1 *)
(* and the handshake returned 0.                                           *)
(***************************************************************************)
C4_StepsSequential ==
  IsConnect =>
    /\ Pos("Socket_new") = 1 /\ Times("Socket_new") = 1
    /\ Called("SSLSocket_setSocketForSSL") =>
         /\ last.ssl = 1 /\ Made("Socket_new", 0)
         /\ Pos("SSLSocket_setSocketForSSL") = 2
    /\ Called("SSLSocket_connect") =>
         /\ Made("SSLSocket_setSocketForSSL", 1)
         /\ Pos("SSLSocket_connect") = 3
    /\ Times("MQTTPacket_send_connect") <= 1
    /\ Called("MQTTPacket_send_connect") =>
         /\ Made("Socket_new", 0)
         /\ last.ssl = 1 => /\ Made("SSLSocket_setSocketForSSL", 1)
                            /\ Made("SSLSocket_connect", 0)
         /\ Pos("MQTTPacket_send_connect") = (IF last.ssl = 1 THEN 4 ELSE 2)

\* C4, witness: a call with TLS went through all four steps.
C4_Witness ==
  IsConnect /\ last.ssl = 1 /\ Called("MQTTPacket_send_connect")

(***************************************************************************)
(* C5.  When Socket_new returns EINPROGRESS or EWOULDBLOCK, the call sets  *)
(* connect_state to TCP_PENDING, returns that status and calls neither the *)
(* TLS configuration, nor the handshake, nor the CONNECT send.             *)
(***************************************************************************)
C5_TcpPending ==
  \A st \in {EINPROGRESS, EWOULDBLOCK} :
    (IsConnect /\ Made("Socket_new", st)) =>
      /\ CsAfter = CS_TCP_PENDING
      /\ last.rc = st
      /\ ~Called("SSLSocket_setSocketForSSL")
      /\ ~Called("SSLSocket_connect")
      /\ ~Called("MQTTPacket_send_connect")

\* C5, witness: a call with TLS on a session in INIT whose TCP connect is
\* pending (EWOULDBLOCK).
C5_Witness ==
  /\ IsConnect /\ last.ssl = 1 /\ Made("Socket_new", EWOULDBLOCK)
  /\ last.cs_before = CS_INIT /\ CsAfter = CS_TCP_PENDING

(***************************************************************************)
(* C6.  As claimed: the call returns 0 if and only if it sent CONNECT      *)
(* successfully, connect_state after the call is MQTT_PENDING in exactly   *)
(* that case, and a failed send resets connect_state to INIT and returns   *)
(* the send's status.                                                      *)
(***************************************************************************)
C6_SuccessIffSent ==
  IsConnect =>
    /\ last.rc = 0 <=> Made("MQTTPacket_send_connect", 0)
    /\ CsAfter = CS_MQTT_PENDING <=> Made("MQTTPacket_send_connect", 0)
    /\ \A e \in SendOutcomes \ {0} :
         Made("MQTTPacket_send_connect", e) => CsAfter = CS_INIT /\ last.rc = e

(***************************************************************************)
(* C7.  On every exit path of connect a host buffer that addressPort       *)
(* allocated is released exactly once, after the last call that uses it,   *)
(* and the caller's endpoint string is never released.                     *)
(***************************************************************************)
C7_AddrReleasedOnce ==
  IsConnect =>
    LET n == Len(last.calls)
        frees == {i \in 1..n : last.calls[i].call = "free"}
    IN /\ \A i \in frees : last.calls[i].ptr # "uri"
       /\ last.alias => frees = {}
       /\ ~last.alias =>
            /\ frees = {n}
            /\ last.calls[n].ptr = "buf"
            /\ \A i \in 1..(n-1) : last.calls[i].ptr \in {"buf", "none"}

\* C7, witness: a call on an allocated host went through the TLS steps, which
\* use the buffer, and released it.
C7_Witness ==
  /\ IsConnect /\ ~last.alias /\ Called("SSLSocket_connect")
  /\ last.calls[Len(last.calls)].call = "free"


(***************************************************************************)
(* Vocabulary of the properties about the ack handlers.                    *)
(***************************************************************************)
AckHandlers == {"handlePingresps", "handleSubacks", "handleUnsubacks"}

\* The last call was a handler whose lookup found a session / found none.
Found == last.op \in AckHandlers /\ last.who # NoClient

NotFound == last.op \in AckHandlers /\ last.who = NoClient

(***************************************************************************)
(* C8.  After handlePingresps for a socket registered to a session, that   *)
(* session's ping_outstanding is 0 whatever it was before, the call has    *)
(* returned TCPSOCKET_COMPLETE, and the session's connect_state and every  *)
(* field of every other session are as they were before the call.          *)
(***************************************************************************)
C8_PingrespClearsPing ==
  [][(last'.op = "handlePingresps" /\ last'.who # NoClient) =>
       /\ clients'[last'.who].ping_outstanding = 0
       /\ last'.outcome = "returned" /\ last'.rc = TCPSOCKET_COMPLETE
       /\ clients'[last'.who].connect_state = clients[last'.who].connect_state
       /\ clients'[last'.who].good = clients[last'.who].good
       /\ clients'[last'.who].socket = last'.sock
       /\ clients[last'.who].socket = last'.sock
       /\ \A t \in Sessions \ {last'.who} : clients'[t] = clients[t]]_vars

\* C8, witness: a PINGRESP for a registered socket found the flag set and
\* cleared it, on a session in a pending phase.
C8_Witness ==
  /\ last.op = "handlePingresps" /\ last.who # NoClient
  /\ last.ping_before = 1 /\ clients[last.who].ping_outstanding = 0
  /\ clients[last.who].connect_state = CS_MQTT_PENDING

C10_UnknownSocketIsFatal ==
  NotFound => ~(last.outcome = "returned" /\ last.rc = TCPSOCKET_COMPLETE)


(***************************************************************************)
(* Vocabulary of the properties about the address parser.                  *)
(***************************************************************************)
\* The last call was a call of the parser and it has returned.
Parsed == last.op = "addressPort" /\ last.outcome = "returned"

Count(s, c) == Cardinality({i \in 1..Len(s) : s[i] = c})

AllDigits(s) == \A i \in 1..Len(s) : IsDigit(s[i])

\* The value of a string of decimal digits.
RECURSIVE Decimal(_)
Decimal(s) ==
  IF Len(s) = 0 THEN 0
  ELSE Decimal(SubSeq(s, 1, Len(s) - 1)) * 10 + DigitVal(s[Len(s)])

\* The integer value of a port suffix: that of its leading digits, 0 if none.
PortValue(s) ==
  LET n == CHOOSE k \in 0..Len(s) :
             /\ AllDigits(SubSeq(s, 1, k))
             /\ \A j \in (k+1)..Len(s) : ~AllDigits(SubSeq(s, 1, j))
  IN Decimal(SubSeq(s, 1, n))

\* What follows position i of s.
After(s, i) == SubSeq(s, i + 1, Len(s))

\* The position of the last ':' and of the closing (last) ']', 0 if none.
LastColon(uri) == strrchr(uri, ":")

Close(uri) == strrchr(uri, "]")

\* No bracket occurs in the endpoint.
BracketFree(uri) == Count(uri, "[") = 0 /\ Count(uri, "]") = 0

\* '[' literal ']', optionally followed by ':' and a decimal port: one pair of
\* brackets, a literal between them, and nothing or ':' digits after them.
BracketedForm(uri) ==
  /\ Len(uri) >= 3 /\ uri[1] = "["
  /\ Count(uri, "[") = 1 /\ Count(uri, "]") = 1
  /\ Close(uri) >= 3
  /\ \/ Close(uri) = Len(uri)
     \/ /\ Len(uri) >= Close(uri) + 2
        /\ uri[Close(uri) + 1] = ":"
        /\ AllDigits(After(uri, Close(uri) + 1))

\* The literal of an endpoint of the bracketed form.
Literal(uri) == SubSeq(uri, 2, Close(uri) - 1)

\* The accesses the last call made at the given lines.
AtLines(ls) == {i \in 1..Len(last.accesses) : last.accesses[i].line \in ls}

(***************************************************************************)
(* C11.  As claimed: for every endpoint '[' literal ']', optionally        *)
(* followed by ':' and a decimal port, the host returned is the literal    *)
(* with both brackets removed, and the port is the default port or the     *)
(* value of the decimal port.                                              *)
(***************************************************************************)
C11_BothBracketsRemoved ==
  (Parsed /\ BracketedForm(last.uri)) =>
    /\ last.host = Literal(last.uri)
    /\ last.port = (IF Close(last.uri) = Len(last.uri) THEN DEFAULT_PORT
                    ELSE Decimal(After(last.uri, Close(last.uri) + 1)))

(***************************************************************************)
(* C12.  For every endpoint that starts with '[', has a closing ']' and a  *)
(* colon between the two, the parser never splits on a colon inside the    *)
(* brackets: when it splits, it splits after the closing ']'; the port is  *)
(* the value of the suffix when the last colon lies strictly after the     *)
(* closing ']', and DEFAULT_PORT otherwise.                                *)
(***************************************************************************)
InternalColons(uri) ==
  /\ Len(uri) >= 1 /\ uri[1] = "[" /\ Close(uri) # 0
  /\ \E i \in 2..(Close(uri) - 1) : uri[i] = ":"

C12_NoSplitInsideBrackets ==
  (Parsed /\ InternalColons(last.uri)) =>
    LET uri == last.uri
    IN /\ \A i \in AtLines({66}) : last.accesses[i].size > Close(uri)
       /\ IF LastColon(uri) > Close(uri)
          THEN /\ last.port = PortValue(After(uri, LastColon(uri)))
               /\ \E i \in AtLines({66}) : last.accesses[i].size = LastColon(uri)
          ELSE /\ last.port = DEFAULT_PORT
               /\ AtLines({66}) = {}

\* C12, witness: an endpoint with two colons inside the brackets and the port
\* 1883 after them ("[::1]:1883") was split at the colon after the bracket.
C12_Witness ==
  /\ Parsed /\ InternalColons(last.uri)
  /\ LastColon(last.uri) > Close(last.uri)
  /\ Count(last.uri, ":") = 3
  /\ last.port = 1883

(***************************************************************************)
(* C13.  As claimed: for every endpoint without a port suffix the port is  *)
(* DEFAULT_PORT and the host is the input address (the endpoint itself, or *)
(* the literal of an endpoint '[' literal ']'); for every endpoint without *)
(* brackets that has a colon the host is what precedes the last colon and  *)
(* the port is the integer value of what follows it.                       *)
(***************************************************************************)
C13_HostAndPort ==
  Parsed =>
    LET uri == last.uri
    IN /\ (BracketFree(uri) /\ LastColon(uri) = 0) =>
            last.port = DEFAULT_PORT /\ last.host = uri
       /\ (BracketedForm(uri) /\ Close(uri) = Len(uri)) =>
            last.port = DEFAULT_PORT /\ last.host = Literal(uri)
       /\ (BracketFree(uri) /\ LastColon(uri) # 0) =>
            /\ last.host = SubSeq(uri, 1, LastColon(uri) - 1)
            /\ last.port = PortValue(After(uri, LastColon(uri)))

(***************************************************************************)
(* C14.  The pointer returned is the input exactly when the call made      *)
(* neither a port split (lines 65-68) nor a bracket strip (lines 76-82);   *)
(* in every other case it is the one buffer the call allocated; a pointer  *)
(* that is the input leads to the input's characters; no write of the call *)
(* goes to the input string.                                               *)
(***************************************************************************)
C14_AliasIffUntouched ==
  Parsed =>
    /\ last.alias <=> (AtLines({66, 68}) = {} /\ AtLines({78, 79, 82}) = {})
    /\ ~last.alias => Cardinality(AtLines({66, 78})) = 1
    /\ last.alias => last.host = last.uri
    /\ \A i \in 1..Len(last.accesses) :
         last.accesses[i].kind = "write" => last.accesses[i].ptr # "uri"

\* C14, witness: a call that made no split and stripped the ']' of the
\* caller's string returned an allocated buffer that holds one character less.
C14_Witness ==
  /\ Parsed /\ ~last.alias
  /\ AtLines({66}) = {} /\ AtLines({78}) # {}
  /\ Len(last.host) = Len(last.uri) - 1 /\ Len(last.host) >= 1

(***************************************************************************)
(* C19.  As claimed: every read and write of the parser lies inside the    *)
(* object it goes to; the test of index len - 1 is made only on a host of  *)
(* length at least 1.                                                      *)
(***************************************************************************)
C19_AccessesInBounds ==
  Parsed =>
    \A i \in 1..Len(last.accesses) :
      last.accesses[i].kind # "malloc" =>
        /\ 0 <= last.accesses[i].idx
        /\ last.accesses[i].idx < last.accesses[i].size

(***************************************************************************)
(* C15.  A connect call changes connect_state to TLS_PENDING only when TLS *)
(* was requested, Socket_new returned 0, the TLS configuration returned 1  *)
(* and the handshake returned TCPSOCKET_INTERRUPTED; a call whose          *)
(* handshake is interrupted leaves TLS_PENDING, returns that status and    *)
(* does not send CONNECT.  When the TLS configuration fails the call       *)
(* returns SOCKET_ERROR and calls neither the handshake nor the CONNECT    *)
(* send.  A call without TLS never changes connect_state to TLS_PENDING    *)
(* and makes no TLS call.                                                  *)
(***************************************************************************)
C15_TlsPending ==
  IsConnect =>
    /\ (last.cs_before # CS_TLS_PENDING /\ CsAfter = CS_TLS_PENDING) =>
         /\ last.ssl = 1
         /\ Made("Socket_new", 0)
         /\ Made("SSLSocket_setSocketForSSL", 1)
         /\ Made("SSLSocket_connect", TCPSOCKET_INTERRUPTED)
    /\ Made("SSLSocket_connect", TCPSOCKET_INTERRUPTED) =>
         /\ CsAfter = CS_TLS_PENDING
         /\ last.rc = TCPSOCKET_INTERRUPTED
         /\ ~Called("MQTTPacket_send_connect")
    /\ (Called("SSLSocket_setSocketForSSL") /\ ~Made("SSLSocket_setSocketForSSL", 1)) =>
         /\ last.rc = SOCKET_ERROR
         /\ ~Called("SSLSocket_connect")
         /\ ~Called("MQTTPacket_send_connect")
    /\ last.ssl = 0 =>
         /\ last.cs_before # CS_TLS_PENDING => CsAfter # CS_TLS_PENDING
         /\ ~Called("SSLSocket_setSocketForSSL") /\ ~Called("SSLSocket_connect")

\* C15, witness: a call with TLS on a session in INIT whose handshake was
\* interrupted left TLS_PENDING and returned the interrupted status.
C15_Witness ==
  /\ IsConnect /\ last.ssl = 1 /\ last.cs_before = CS_INIT
  /\ Made("SSLSocket_connect", TCPSOCKET_INTERRUPTED)
  /\ CsAfter = CS_TLS_PENDING /\ last.rc = TCPSOCKET_INTERRUPTED

(***************************************************************************)
(* Vocabulary of the frame properties: the operations of the file by the   *)
(* name the record of a call carries.                                      *)
(***************************************************************************)
Requests == {"subscribe", "unsubscribe"}

AckReleasers == {"handleSubacks", "handleUnsubacks"}

(***************************************************************************)
(* C16.  Over any sequence of operations ping_outstanding is changed only  *)
(* by MQTTProtocol_handlePingresps, which sets it to 0: a step of connect, *)
(* subscribe, unsubscribe, handleSubacks or handleUnsubacks leaves every   *)
(* session's ping_outstanding as it was, and a step that sets it to 1 is   *)
(* a step of the keep-alive sender, not of an operation of the file.       *)
(***************************************************************************)
C16_PingChangedOnlyByPingresp ==
  [][/\ last'.op \in ({"connect"} \cup Requests \cup AckReleasers) =>
          \A s \in Sessions :
            clients'[s].ping_outstanding = clients[s].ping_outstanding
     /\ \A s \in Sessions :
          clients'[s].ping_outstanding # clients[s].ping_outstanding =>
            IF clients'[s].ping_outstanding = 0
            THEN last'.op = "handlePingresps"
            ELSE last'.op = "keepalive"]_vars

\* C16, witness: a connect call on a session whose ping is outstanding has
\* sent CONNECT and the flag is still set.
C16_Witness ==
  /\ IsConnect /\ Made("MQTTPacket_send_connect", 0)
  /\ clients[last.who].ping_outstanding = 1

(***************************************************************************)
(* C17.  connect_state of a session is changed only by a connect call on   *)
(* that session: subscribe, unsubscribe and the three ack handlers leave   *)
(* every session's connect_state as it was, and a connect call leaves that *)
(* of every other session; subscribe and unsubscribe make the one send     *)
(* call, return its outcome and change nothing of any session nor of the   *)
(* ack structures.                                                         *)
(***************************************************************************)
C17_PhaseChangedOnlyByConnect ==
  [][/\ \A s \in Sessions :
          clients'[s].connect_state # clients[s].connect_state =>
            last'.op = "connect" /\ last'.who = s
     /\ last'.op \in (Requests \cup AckHandlers) =>
          \A s \in Sessions : clients'[s].connect_state = clients[s].connect_state
     /\ last'.op \in Requests =>
          /\ clients' = clients /\ released' = released
          /\ Len(last'.calls) = 1 /\ last'.rc = last'.calls[1].ret]_vars

\* C17, witness: a subscribe whose send failed, on a session in TLS_PENDING
\* while the other session is in TCP_PENDING: both are still in their phases.
C17_Witness ==
  /\ last.op = "subscribe" /\ last.rc = SOCKET_ERROR
  /\ clients[last.who].connect_state = CS_TLS_PENDING
  /\ \E t \in Sessions \ {last.who} : clients[t].connect_state = CS_TCP_PENDING

(***************************************************************************)
(* C18.  After every connect call the session's good flag is 1, whatever   *)
(* the call returned, and no step of any operation of the file takes the   *)
(* flag of any session from 1 to 0.                                        *)
(***************************************************************************)
C18_GoodAfterConnect ==
  [][/\ last'.op = "connect" => clients'[last'.who].good = 1
     /\ \A s \in Sessions : clients[s].good = 1 => clients'[s].good = 1]_vars

\* C18, witness: a connect call whose TLS handshake failed has returned the
\* error and the session's flag is 1.
C18_Witness ==
  /\ IsConnect /\ Made("SSLSocket_connect", SOCKET_ERROR)
  /\ last.rc = SOCKET_ERROR /\ clients[last.who].good = 1

====
